---------------------------- MODULE Spec2Model ----------------------------
(***************************************************************************)
(* Model of gmsh2VTU (docs/workspace/utils.py): the conversion of a 2-D    *)
(* gmsh mesh into a vtkUnstructuredGrid carrying a normalized "Region"     *)
(* cell-data array.                                                        *)
(*                                                                         *)
(* The function is one straight-line call.  It is modelled as a program    *)
(* counter walking through its statements; each loop iteration of the      *)
(* group loop (lines 33-39) and of the element loop (lines 42-60) is one   *)
(* step.  The argument gmshModel is the meshing kernel; it is modelled as  *)
(* a record holding the answers of its queries, fixed for the whole call.  *)
(*                                                                         *)
(* Numbers: region tags are Python ints (unbounded).  The normalized       *)
(* values are Python floats; they are modelled as exact fractions          *)
(* [num, den].  IEEE division and subtraction are correctly rounded and    *)
(* monotone, so 0/d = 0.0, d/d = 1.0, 1 - 0.0 = 1.0, 1 - 1.0 = 0.0 are     *)
(* exact and a quotient in [0,1] stays in [0,1]; the narrowing to float32  *)
(* of vtkFloatArray.SetValue keeps 0.0, 1.0 and the interval as well.      *)
(***************************************************************************)
EXTENDS Integers, Sequences, FiniteSets, TLC

\* ------------------------------------------------------------------ bounds
\* Longest node-identifier list returned by getNodes().
MaxNodes == 4
\* Most elements in the first element-type block of getElements(2).
MaxElems == 3

\* ------------------------------------------------------- program constants
\* gmsh element type tested at line 50 (3-node triangle).
TRIANGLE == 2
\* gmsh element type tested at line 43 (4-node quadrangle).
QUAD == 3
\* Default of physicalGroupMap.get at line 59.
UNASSIGNED == -1

\* ----------------------------------------------------- the meshing kernel
\* Node identifiers the kernel may hand out (sparse, not zero-based).
NodeIds == {10, 11, 12}
\* The identifiers in a fixed cyclic order, used to lay out connectivity.
NodeRing == <<10, 11, 12>>
\* Element types the kernel may return for dimension 2: triangle,
\* quadrangle and the 6-node second-order triangle (gmsh type 9).
ElemTypes == {TRIANGLE, QUAD, 9}
\* Node count per element of each gmsh element type.
NodesOf(t) == CASE t = TRIANGLE -> 3 [] t = QUAD -> 4 [] OTHER -> 6
\* Geometric entities (surfaces) and physical-group tags of dimension 2.
Entities == {1, 2, 3}
GroupTags == {2, 5}

Range(s) == {s[k] : k \in DOMAIN s}

\* Element identifiers are numbered through the blocks: 101, 102, ...
ElemTagsFrom(first, n) == [k \in 1..n |-> 100 + first + k - 1]

\* Flattened connectivity of n elements of type t: a walk round NodeRing
\* from offset s with stride d.
Connectivity(t, n, s, d) ==
    [p \in 1..(n * NodesOf(t)) |-> NodeRing[((s + d * (p - 1)) % Len(NodeRing)) + 1]]

\* One element-type block of getElements: (type, element tags, node tags).
Block(t, first, n, s, d) ==
    [type |-> t, tags |-> ElemTagsFrom(first, n), nodes |-> Connectivity(t, n, s, d)]

\* The block lists getElements(2) may return: none, one block of 1..MaxElems
\* elements of a type in firsts, or that block followed by a one-element
\* block of a larger type in seconds (gmsh orders the blocks by type).
BlockLists(firsts, seconds, starts, strides) ==
    {<<>>}
    \cup {<<Block(t, 1, n, s, d)>> :
            t \in firsts, n \in 1..MaxElems, s \in starts, d \in strides}
    \cup {<<Block(tu[1], 1, n, s, d), Block(tu[2], n + 1, 1, 0, 1)>> :
            tu \in {x \in firsts \X seconds : x[1] < x[2]},
            n \in 1..MaxElems, s \in starts, d \in strides}

AllElemTags(blocks) == UNION {Range(blocks[b].tags) : b \in DOMAIN blocks}

\* Physical groups: (tag, entities), tags distinct, every group owning
\* entity 1, entity 2 or both (entity 3 belongs to no group); lists of zero,
\* one or two groups.
EntityLists ==
    {<<1>>, <<2>>, <<1, 2>>}
GroupLists ==
    {<<>>}
    \cup {<<[tag |-> t, entities |-> es]>> : t \in GroupTags, es \in EntityLists}
    \cup {<<[tag |-> tu[1], entities |-> es], [tag |-> tu[2], entities |-> fs]>> :
            tu \in {x \in GroupTags \X GroupTags : x[1] # x[2]},
            es \in EntityLists, fs \in EntityLists}

\* gmshModel.mesh.getNodes(): the node tags (coordinates are not modelled:
\* the i-th point is the i-th node's coordinate triple).
getNodes(m) == m.nodeTags
\* gmshModel.mesh.getElements(2): the element-type blocks.
getElements(m) == m.blocks
\* gmshModel.getPhysicalGroups(2).
getPhysicalGroups(m) == m.groups
\* gmshModel.mesh.getElements(2, ent)[1]: the element tags classified on
\* entity ent, one list per element type present on it, in type order.
getEntityElementTags(m, ent) ==
    LET own(b) == SelectSeq(m.blocks[b].tags, LAMBDA e : m.entityOf[e] = ent)
        all    == [b \in DOMAIN m.blocks |-> own(b)]
    IN  SelectSeq(all, LAMBDA l : Len(l) > 0)

\* Meshes that vary the nodes, the element type and the connectivity; no
\* physical group, every element on entity 1.
GeometryMeshes ==
    {[nodeTags |-> nt, blocks |-> bl, groups |-> <<>>,
      entityOf |-> [e \in AllElemTags(bl) |-> 1]] :
        nt \in UNION {[1..n -> NodeIds] : n \in 1..MaxNodes},
        bl \in BlockLists(ElemTypes, ElemTypes, 0..2, {1, 2})}

\* Meshes that vary the physical groups and the classification of the
\* elements on entities; triangles first, possibly one quadrangle after.
RegionMeshes ==
    UNION {{[nodeTags |-> NodeRing, blocks |-> bl, groups |-> gl, entityOf |-> eo] :
                gl \in GroupLists, eo \in [AllElemTags(bl) -> Entities]} :
            bl \in BlockLists({TRIANGLE}, {QUAD}, {0}, {1})}


\* ------------------------------------------------------- Python primitives
\* A dict is a function whose domain is its key set.
EmptyDict == [k \in {} |-> 0]
\* d[k] = v
DictSet(d, k, v) == [x \in (DOMAIN d) \cup {k} |-> IF x = k THEN v ELSE d[x]]
\* d.get(k, default)
DictGet(d, k, default) == IF k \in DOMAIN d THEN d[k] ELSE default
\* d.get(k, 0) in place of d[k]: a missing key yields index 0, no error.
SubscriptOrZero(d, k) ==
    IF k \in DOMAIN d THEN [ok |-> TRUE, val |-> d[k]] ELSE [ok |-> TRUE, val |-> 0]
\* d[k]: the value, or no value (KeyError) when k is not a key.
Subscript(d, k) ==
    IF k \in DOMAIN d THEN [ok |-> TRUE, val |-> d[k]] ELSE [ok |-> FALSE, val |-> 0]
\* s[lo:hi] of a list (0-based, hi clamped to the length).
Slice(s, lo, hi) ==
    LET top == IF hi < Len(s) THEN hi ELSE Len(s)
    IN  [k \in 1..(top - lo) |-> s[lo + k]]
\* min(s), max(s) of a non-empty list of ints.
Min(s) == CHOOSE x \in Range(s) : \A y \in Range(s) : x <= y
Max(s) == CHOOSE x \in Range(s) : \A y \in Range(s) : x >= y

\* Floats as exact fractions num/den (den > 0).
Frac(n, d) == [num |-> n, den |-> d]
\* The float 1.0.
One == Frac(1, 1)
\* The quotient kept as it is, without the inversion 1 - q.
NotInverted(q) == q
\* 1 - q
OneMinus(q) == Frac(q.den - q.num, q.den)
\* An entry of a vtkFloatArray that SetNumberOfTuples allocated and nothing
\* has written yet.
Uninit == Frac(0, 0)

\* ------------------------------------------------------------ the helpers
\* The index built with setdefault: an identifier keeps its first position.
RECURSIVE DictFromEnumerateFirstWins(_, _)
DictFromEnumerateFirstWins(tags, n) ==
    IF n = 0 THEN EmptyDict
    ELSE LET d == DictFromEnumerateFirstWins(tags, n - 1)
         IN  IF tags[n] \in DOMAIN d THEN d ELSE DictSet(d, tags[n], n - 1)

\* Line 12: {nodeTag: idx for idx, nodeTag in enumerate(nodeTags)}, the
\* items inserted in list order, idx zero-based; n is the number of items
\* already inserted.
RECURSIVE DictFromEnumerate(_, _)
DictFromEnumerate(tags, n) ==
    IF n = 0 THEN EmptyDict
    ELSE DictSet(DictFromEnumerate(tags, n - 1), tags[n], n - 1)

\* Line 15: [nodeTagToIndex[nodeTag] for nodeTag in elemNodeTags]; no list
\* (KeyError) as soon as one subscript fails.
TranslateNodeTags(index, tags) ==
    LET r == [p \in DOMAIN tags |-> Subscript(index, tags[p])]
    IN  IF \E p \in DOMAIN tags : ~r[p].ok
        THEN [ok |-> FALSE, val |-> <<>>]
        ELSE [ok |-> TRUE, val |-> [p \in DOMAIN tags |-> r[p].val]]

\* The assignment made with setdefault: an element keeps its first group.
RECURSIVE AssignElementsKeepFirst(_, _, _, _)
AssignElementsKeepFirst(map, tags, tag, n) ==
    IF n = 0 THEN map
    ELSE LET d == AssignElementsKeepFirst(map, tags, tag, n - 1)
         IN  IF tags[n] \in DOMAIN d THEN d ELSE DictSet(d, tags[n], tag)

\* Lines 38-39: for elemTag in elementTags[0]: physicalGroupMap[elemTag] = tag
\* (the first n tags done).
RECURSIVE AssignElements(_, _, _, _)
AssignElements(map, tags, tag, n) ==
    IF n = 0 THEN map
    ELSE DictSet(AssignElements(map, tags, tag, n - 1), tags[n], tag)

\* Lines 35-39 for the first n entities of one group: each entity's FIRST
\* element-type block is read (elementTags[0]); an entity carrying no
\* element makes that subscript fail (IndexError).
RECURSIVE ResolveEntities(_, _, _, _, _)
ResolveEntities(m, map, ents, tag, n) ==
    IF n = 0 THEN [err |-> "", map |-> map]
    ELSE LET prev == ResolveEntities(m, map, ents, tag, n - 1)
             elementTags == getEntityElementTags(m, ents[n])
         IN  IF prev.err # "" THEN prev
             ELSE IF Len(elementTags) = 0
                  THEN [err |-> "IndexError", map |-> prev.map]
                  ELSE [err |-> "",
                        map |-> AssignElements(prev.map, elementTags[1], tag,
                                               Len(elementTags[1]))]

\* The cell built with its point ids in reverse order (orientation flipped).
CellsOfElementReversed(type, ordered, k) ==
    IF type = QUAD
    THEN LET nodes == Slice(ordered, 4 * k, 4 * (k + 1))
         IN  <<[type |-> "vtkQuad", ids |-> [j \in 1..4 |-> nodes[5 - j]]]>>
    ELSE IF type = TRIANGLE
    THEN LET nodes == Slice(ordered, 3 * k, 3 * (k + 1))
         IN  <<[type |-> "vtkTriangle", ids |-> [j \in 1..3 |-> nodes[4 - j]]]>>
    ELSE <<>>

\* Lines 43-56: the cells element i (zero-based) adds to the grid: a quad
\* for type 3, a triangle for type 2, nothing for any other type.  The
\* connectivity holds NodesOf(type) entries per element, so each slice is
\* full.
CellsOfElement(type, ordered, k) ==
    IF type = QUAD
    THEN LET nodes == Slice(ordered, 4 * k, 4 * (k + 1))
         IN  <<[type |-> "vtkQuad", ids |-> [j \in 1..4 |-> nodes[j]]]>>
    ELSE IF type = TRIANGLE
    THEN LET nodes == Slice(ordered, 3 * k, 3 * (k + 1))
         IN  <<[type |-> "vtkTriangle", ids |-> [j \in 1..3 |-> nodes[j]]]>>
    ELSE <<>>

\* Line 68: [1 - (region - min) / (max - min) for region in regionValues];
\* the division fails (ZeroDivisionError) on a zero divisor.
ScaleRegions(values, lo, hi) ==
    IF hi - lo = 0 THEN [err |-> "ZeroDivisionError", val |-> <<>>]
    ELSE [err |-> "",
          val |-> [k \in DOMAIN values |-> OneMinus(Frac(values[k] - lo, hi - lo))]]

\* The normalization without the min == max branch.
NormalizeRegionsNoCollapse(values) ==
    IF Len(values) = 0 THEN [err |-> "ValueError", val |-> <<>>]
    ELSE ScaleRegions(values, Min(values), Max(values))

\* Lines 63-68: min() of an empty list fails (ValueError); a single distinct
\* value collapses to 1.0 everywhere.
NormalizeRegions(values) ==
    IF Len(values) = 0 THEN [err |-> "ValueError", val |-> <<>>]
    ELSE LET min_region == Min(values)
             max_region == Max(values)
         IN  IF min_region = max_region
             THEN [err |-> "", val |-> [k \in DOMAIN values |-> One]]
             ELSE ScaleRegions(values, min_region, max_region)

\* ---------------------------------------------------------------- state
VARIABLES
    gmshModel,            \* the argument: the kernel's answers
    pc,                   \* position in gmsh2VTU
    result,               \* "running", "grid" (returned) or the exception raised
    nodeTags, elemType, elemTags, elemNodeTags,      \* lines 4-8
    nodeTagToIndex,       \* line 12
    orderedElemNodeTags,  \* line 15
    vtk_points,           \* lines 17-19: the point ids inserted
    cells,                \* cells of unstructuredGrid, in insertion order
    cellData,             \* arrays of unstructuredGrid.GetCellData()
    regionArray,          \* lines 25-28, 70-71
    physicalGroups, physicalGroupMap, g,             \* lines 31-39
    regionValues, i,      \* lines 41-60
    normalizedRegions     \* lines 63-68

vars == <<gmshModel, pc, result, nodeTags, elemType, elemTags, elemNodeTags,
          nodeTagToIndex, orderedElemNodeTags, vtk_points, cells, cellData,
          regionArray, physicalGroups, physicalGroupMap, g, regionValues, i,
          normalizedRegions>>

meshVars   == <<nodeTags, elemType, elemTags, elemNodeTags>>
indexVars  == <<nodeTagToIndex, orderedElemNodeTags>>
gridVars   == <<vtk_points, cells, cellData, regionArray>>
groupVars  == <<physicalGroups, physicalGroupMap, g>>
regionVars == <<regionValues, i, normalizedRegions>>

\* An exception leaves gmsh2VTU: the caller gets no grid.
Raise(exc) == pc' = "done" /\ result' = exc

Init ==
    /\ gmshModel \in GeometryMeshes \cup RegionMeshes
    /\ pc = "start"
    /\ result = "running"
    /\ nodeTags = <<>> /\ elemType = 0 /\ elemTags = <<>> /\ elemNodeTags = <<>>
    /\ nodeTagToIndex = EmptyDict /\ orderedElemNodeTags = <<>>
    /\ vtk_points = <<>> /\ cells = <<>> /\ cellData = <<>> /\ regionArray = <<>>
    /\ physicalGroups = <<>> /\ physicalGroupMap = EmptyDict /\ g = 0
    /\ regionValues = <<>> /\ i = 0 /\ normalizedRegions = <<>>

\* Lines 4-8: read the nodes and the FIRST element-type block of dimension
\* 2; with no 2-D element the subscript [0][0] fails.
ReadMesh ==
    /\ pc = "start"
    /\ nodeTags' = getNodes(gmshModel)
    /\ LET all2DElements == getElements(gmshModel)
       IN  IF Len(all2DElements) = 0
           THEN /\ Raise("IndexError")
                /\ UNCHANGED <<elemType, elemTags, elemNodeTags>>
           ELSE /\ elemType' = all2DElements[1].type
                /\ elemTags' = all2DElements[1].tags
                /\ elemNodeTags' = all2DElements[1].nodes
                /\ pc' = "index"
                /\ UNCHANGED result
    /\ UNCHANGED <<gmshModel, indexVars, gridVars, groupVars, regionVars>>

\* Line 12.
BuildNodeIndex ==
    /\ pc = "index"
    /\ nodeTagToIndex' = DictFromEnumerate(nodeTags, Len(nodeTags))
    /\ pc' = "translate"
    /\ UNCHANGED <<gmshModel, result, meshVars, orderedElemNodeTags, gridVars,
                   groupVars, regionVars>>

\* Line 15.
TranslateConnectivity ==
    /\ pc = "translate"
    /\ LET t == TranslateNodeTags(nodeTagToIndex, elemNodeTags)
       IN  IF t.ok
           THEN orderedElemNodeTags' = t.val /\ pc' = "grid" /\ UNCHANGED result
           ELSE Raise("KeyError") /\ UNCHANGED orderedElemNodeTags
    /\ UNCHANGED <<gmshModel, meshVars, nodeTagToIndex, gridVars, groupVars,
                   regionVars>>

\* Lines 17-28: the points, the empty grid, the Region array sized to the
\* element list.
CreateGrid ==
    /\ pc = "grid"
    /\ vtk_points' = [k \in 1..Len(nodeTags) |-> k - 1]
    /\ cells' = <<>>
    /\ regionArray' = [k \in 1..Len(elemTags) |-> Uninit]
    /\ pc' = "physical"
    /\ UNCHANGED <<gmshModel, result, meshVars, indexVars, cellData, groupVars,
                   regionVars>>

\* Where the group loop goes when it has no (more) group to run: the
\* element loop, or past it when the element list is empty.
AfterGroups == IF Len(elemTags) = 0 THEN "normalize" ELSE "cells"

\* Lines 31-32.
ReadPhysicalGroups ==
    /\ pc = "physical"
    /\ physicalGroups' = getPhysicalGroups(gmshModel)
    /\ physicalGroupMap' = EmptyDict
    /\ g' = 0
    /\ pc' = IF Len(getPhysicalGroups(gmshModel)) = 0 THEN AfterGroups ELSE "groups"
    /\ UNCHANGED <<gmshModel, result, meshVars, indexVars, gridVars, regionVars>>

\* Lines 33-39, one group (g counts the groups done).
ResolveGroup ==
    /\ pc = "groups"
    /\ LET group == physicalGroups[g + 1]
           r == ResolveEntities(gmshModel, physicalGroupMap, group.entities,
                                group.tag, Len(group.entities))
       IN  /\ physicalGroupMap' = r.map
           /\ g' = g + 1
           /\ IF r.err # ""
              THEN Raise(r.err)
              ELSE /\ pc' = IF g + 1 = Len(physicalGroups) THEN AfterGroups ELSE "groups"
                   /\ UNCHANGED result
    /\ UNCHANGED <<gmshModel, meshVars, indexVars, gridVars, physicalGroups,
                   regionVars>>

\* Lines 42-60, one element (i is the loop index, zero-based).
AssembleElement ==
    /\ pc = "cells"
    /\ cells' = cells \o CellsOfElement(elemType, orderedElemNodeTags, i)
    /\ regionValues' =
           Append(regionValues, DictGet(physicalGroupMap, elemTags[i + 1], UNASSIGNED))
    /\ i' = i + 1
    /\ pc' = IF i + 1 = Len(elemTags) THEN "normalize" ELSE "cells"
    /\ UNCHANGED <<gmshModel, result, meshVars, indexVars, vtk_points, cellData,
                   regionArray, groupVars, normalizedRegions>>

\* Lines 62-68.
Normalize ==
    /\ pc = "normalize"
    /\ LET r == NormalizeRegions(regionValues)
       IN  IF r.err # ""
           THEN Raise(r.err) /\ UNCHANGED normalizedRegions
           ELSE normalizedRegions' = r.val /\ pc' = "fill" /\ UNCHANGED result
    /\ UNCHANGED <<gmshModel, meshVars, indexVars, gridVars, groupVars,
                   regionValues, i>>

\* Lines 70-71: regionArray.SetValue(i, normalizedRegion) for every value.
FillRegionArray ==
    /\ pc = "fill"
    /\ regionArray' = [k \in DOMAIN regionArray |->
                          IF k <= Len(normalizedRegions)
                          THEN normalizedRegions[k] ELSE regionArray[k]]
    /\ pc' = "return"
    /\ UNCHANGED <<gmshModel, result, meshVars, indexVars, vtk_points, cells,
                   cellData, groupVars, regionVars>>

\* Lines 73-76: attach the array and return the grid.
Return ==
    /\ pc = "return"
    /\ cellData' = Append(cellData, [name |-> "Region", values |-> regionArray])
    /\ result' = "grid"
    /\ pc' = "done"
    /\ UNCHANGED <<gmshModel, meshVars, indexVars, vtk_points, cells, regionArray,
                   groupVars, regionVars>>

Next ==
    \/ ReadMesh
    \/ BuildNodeIndex
    \/ TranslateConnectivity
    \/ CreateGrid
    \/ ReadPhysicalGroups
    \/ ResolveGroup
    \/ AssembleElement
    \/ Normalize
    \/ FillRegionArray
    \/ Return

Spec == Init /\ [][Next]_vars

TypeOK ==
    /\ pc \in {"start", "index", "translate", "grid", "physical", "groups",
               "cells", "normalize", "fill", "return", "done"}
    /\ result \in {"running", "grid", "IndexError", "KeyError", "ValueError",
                   "ZeroDivisionError"}
    /\ (result = "running") = (pc # "done")


\* --------------------------------------------------------------- properties
\* The element types gmsh2VTU builds cells for.
Supported == {TRIANGLE, QUAD}
\* gmsh2VTU returned its grid to the caller.
Returned == result = "grid"
\* The values of the "Region" cell-data array of the returned grid.
RegionField == cellData[1].values
\* The group loop ran to its end without an exception.
GroupsResolved == pc \in {"cells", "normalize", "fill", "return"} \/ Returned
\* The element loop ran to its end (every raw region value is known).
RegionsResolved ==
    /\ pc \in {"normalize", "fill", "return", "done"}
    /\ Len(regionValues) > 0
    /\ Len(regionValues) = Len(elemTags)
\* Line 68 or 66 produced the normalized values.
Normalized == pc \in {"fill", "return"} \/ Returned
\* The physical groups (positions in getPhysicalGroups order) owning the
\* entity element e is classified on.
Owners(e) ==
    {k \in DOMAIN gmshModel.groups :
        gmshModel.entityOf[e] \in Range(gmshModel.groups[k].entities)}
\* Line 12 has run (lines 4-8 did not fail).
IndexBuilt == pc \notin {"start", "index"} /\ Len(gmshModel.blocks) > 0
\* Positions (one-based) of identifier t in the node list.
Positions(t) == {p \in DOMAIN nodeTags : nodeTags[p] = t}
Least(S) == CHOOSE x \in S : \A y \in S : x <= y
Greatest(S) == CHOOSE x \in S : \A y \in S : x >= y
\* Fractions compared by cross-multiplication.
IsOne(q) == q.den > 0 /\ q.num = q.den
IsZero(q) == q.den > 0 /\ q.num = 0
InUnit(q) == q.den > 0 /\ 0 <= q.num /\ q.num <= q.den

\* C1: on every returned grid the Region array has as many tuples as the
\* grid has cells, whatever the element type of the processed block.
C1_RegionAlignedWithCells ==
    Returned => Len(RegionField) = Len(cells)

\* C2: when the processed elements are neither triangles nor quadrangles the
\* call ends in a failure and returns no grid.
C2_UnsupportedTypeFails ==
    (pc = "done" /\ Len(gmshModel.blocks) > 0 /\ gmshModel.blocks[1].type \notin Supported)
        => ~Returned

\* The connectivity gmsh2VTU reads names a node identifier that getNodes()
\* did not supply.
MissingNodeReference ==
    /\ Len(gmshModel.blocks) > 0
    /\ \E p \in DOMAIN gmshModel.blocks[1].nodes :
           gmshModel.blocks[1].nodes[p] \notin Range(gmshModel.nodeTags)

\* C3: a node identifier of the connectivity that is absent from the node
\* index aborts the call with an error at the translation (line 15): the
\* grid is never created, no cell and no Region array is ever added, and the
\* caller receives no grid.
C3_MissingNodeAborts ==
    MissingNodeReference =>
        /\ pc \in {"start", "index", "translate", "done"}
        /\ pc = "done" => result = "KeyError"
        /\ cells = <<>> /\ cellData = <<>> /\ regionArray = <<>>
        /\ orderedElemNodeTags = <<>>

C3_Witness ==
    MissingNodeReference /\ pc = "done" /\ result = "KeyError"

\* The cell types one cell per element of every supported block would give,
\* over the first n blocks.
RECURSIVE ExpectedCellTypes(_, _)
ExpectedCellTypes(blocks, n) ==
    IF n = 0 THEN <<>>
    ELSE ExpectedCellTypes(blocks, n - 1) \o
         (IF blocks[n].type = QUAD
          THEN [k \in DOMAIN blocks[n].tags |-> "vtkQuad"]
          ELSE IF blocks[n].type = TRIANGLE
          THEN [k \in DOMAIN blocks[n].tags |-> "vtkTriangle"]
          ELSE <<>>)

\* C4: the returned grid holds one cell for every element of every
\* supported type block, each cell typed after its own element.
C4_OneCellPerSupportedElement ==
    Returned =>
        [c \in DOMAIN cells |-> cells[c].type]
            = ExpectedCellTypes(gmshModel.blocks, Len(gmshModel.blocks))

\* C5: the c-th cell holds the dense indices of the c-th processed element's
\* node identifiers, in connectivity order; for a supported type the cells
\* are as many as the elements once the element loop is over.
C5_CellsTranslateInOrder ==
    /\ \A c \in DOMAIN cells :
           LET n == NodesOf(elemType)
           IN  cells[c].ids =
                   [j \in 1..n |-> nodeTagToIndex[elemNodeTags[n * (c - 1) + j]]]
    /\ (RegionsResolved /\ elemType \in Supported) => Len(cells) = Len(elemTags)

C5_Witness ==
    /\ Returned
    /\ Len(cells) >= 2
    /\ cells[1].ids[1] > cells[1].ids[2]
    /\ cells[1] # cells[2]
    /\ nodeTags[1] > nodeTags[2]

\* C6: when the raw region values are not all equal, every normalized value
\* is 1 - (raw - min)/(max - min): it lies in [0,1], is exactly 1.0 at the
\* minimal raw value and exactly 0.0 at the maximal one; the returned Region
\* array holds these values.
C6_NormalizedInUnitInterval ==
    (Normalized /\ \E a, b \in Range(regionValues) : a # b) =>
        /\ Len(normalizedRegions) = Len(regionValues)
        /\ LET lo == Least(Range(regionValues))
               hi == Greatest(Range(regionValues))
           IN  \A k \in DOMAIN regionValues :
                   LET raw == regionValues[k]
                       v == normalizedRegions[k]
                   IN  /\ InUnit(v)
                       /\ raw = lo => IsOne(v)
                       /\ raw = hi => IsZero(v)
                       /\ v.num * (hi - lo) = v.den * ((hi - lo) - (raw - lo))
        /\ Returned => RegionField = normalizedRegions

C6_Witness ==
    /\ Returned
    /\ \E a, b, c \in DOMAIN regionValues :
           /\ regionValues[a] < regionValues[b] /\ regionValues[b] < regionValues[c]
           /\ regionValues[a] = UNASSIGNED
           /\ IsOne(RegionField[a]) /\ IsZero(RegionField[c])
           /\ 0 < RegionField[b].num /\ RegionField[b].num < RegionField[b].den

\* C7: when every element has the same raw region value, the normalization
\* raises nothing and every normalized value is 1.0.
C7_DegenerateCollapse ==
    (RegionsResolved /\ pc # "normalize"
        /\ \A a, b \in Range(regionValues) : a = b) =>
        /\ result \in {"running", "grid"}
        /\ Len(normalizedRegions) = Len(regionValues)
        /\ \A k \in DOMAIN normalizedRegions : IsOne(normalizedRegions[k])
        /\ Returned => RegionField = normalizedRegions

C7_Witness ==
    /\ Returned
    /\ Len(regionValues) >= 2
    /\ \A k \in DOMAIN regionValues : regionValues[k] = UNASSIGNED
    /\ \A k \in DOMAIN RegionField : IsOne(RegionField[k])

\* C8: an element owned by several physical groups resolves to the tag of
\* the group processed last among them: so for the raw region value of
\* every element of the element list, and for every entry the group loop
\* leaves in physicalGroupMap.
C8_LastGroupWins ==
    /\ \A k \in DOMAIN regionValues :
           Owners(elemTags[k]) # {} =>
               regionValues[k] = gmshModel.groups[Greatest(Owners(elemTags[k]))].tag
    /\ GroupsResolved =>
           \A e \in DOMAIN physicalGroupMap :
               /\ Owners(e) # {}
               /\ physicalGroupMap[e] = gmshModel.groups[Greatest(Owners(e))].tag

C8_Witness ==
    /\ Returned
    /\ \E k \in DOMAIN regionValues :
           /\ Owners(elemTags[k]) = {1, 2}
           /\ gmshModel.groups[1].tag > gmshModel.groups[2].tag
           /\ regionValues[k] = gmshModel.groups[2].tag

\* C9: once the groups are resolved, an element of the mesh is unassigned
\* (-1) exactly when no physical group owns the entity it is classified on.
C9_UnassignedIffUnowned ==
    GroupsResolved =>
        \A e \in AllElemTags(gmshModel.blocks) :
            (DictGet(physicalGroupMap, e, UNASSIGNED) = UNASSIGNED) <=> (Owners(e) = {})

\* C10 as stated: a node identifier maps to the position of its first
\* occurrence in the node list.
C10_FirstOccurrenceWins ==
    IndexBuilt =>
        \A t \in Range(nodeTags) : nodeTagToIndex[t] = Least(Positions(t)) - 1

\* C10 amended: a node identifier maps to the position of its last
\* occurrence in the node list, and every cell referencing it points at that
\* last-occurring point.
C10_LastOccurrenceWins ==
    /\ IndexBuilt =>
           /\ DOMAIN nodeTagToIndex = Range(nodeTags)
           /\ \A t \in Range(nodeTags) : nodeTagToIndex[t] = Greatest(Positions(t)) - 1
    /\ \A c \in DOMAIN cells : \A j \in DOMAIN cells[c].ids :
           LET t == elemNodeTags[NodesOf(elemType) * (c - 1) + j]
           IN  cells[c].ids[j] = Greatest(Positions(t)) - 1

C10_Witness ==
    /\ Returned
    /\ \E t \in Range(nodeTags) :
           /\ Cardinality(Positions(t)) >= 2
           /\ \E c \in DOMAIN cells : \E j \in DOMAIN cells[c].ids :
                  /\ elemNodeTags[NodesOf(elemType) * (c - 1) + j] = t
                  /\ cells[c].ids[j] = Greatest(Positions(t)) - 1
                  /\ cells[c].ids[j] # Least(Positions(t)) - 1

=============================================================================
